---- MODULE Spec2Model ----
(***************************************************************************)
(* Model of campie's run_kernel (src/campie/campie/run.py): the shape      *)
(* analysis, the launch planning, the allocation of the results buffer,    *)
(* the marshalling of the kernel arguments, the kernel call and the        *)
(* reshaping of the results.  One call of run_kernel is one behaviour:     *)
(* Init draws the arguments, each action is one step of the function body  *)
(* in source order, and the call ends in pc = "done" (a value is returned) *)
(* or pc = "failed" (an exception leaves the function).                    *)
(*                                                                         *)
(* Arrays are records [shape, data] with data the row-major (C order)      *)
(* listing of the elements, as cupy lays out a freshly allocated array.    *)
(* Indices and axes are 0-based as in Python; TLA+ sequences are 1-based,  *)
(* so element n of a Python tuple t is t[n + 1].                           *)
(***************************************************************************)
EXTENDS Integers, Sequences, FiniteSets

(* ---------------- bounds of the model ---------------- *)
MaxDim == 2
MaxOuterLen == 2
MaxRows == 3
MaxThreads == 3

VARIABLES
    inputs_outer_shape, cam_outer_shape, input_rows, cam_rows,
    is_reduction, reduction_values, max_threads_per_block,
    pc, failure,
    sub_shape, super_shape, inputs_overhang, cam_overhang,
    results, dim_block, dim_grid, kernel_args, operands, launches, returned

args == <<inputs_outer_shape, cam_outer_shape, input_rows, cam_rows,
          is_reduction, reduction_values, max_threads_per_block>>
vars == <<inputs_outer_shape, cam_outer_shape, input_rows, cam_rows,
          is_reduction, reduction_values, max_threads_per_block,
          pc, failure,
          sub_shape, super_shape, inputs_overhang, cam_overhang,
          results, dim_block, dim_grid, kernel_args, operands, launches,
          returned>>

(* ---------------- Python helpers ---------------- *)
Min(a, b) == IF a <= b THEN a ELSE b

\* range(a, b)
Range(a, b) == [k \in 1..(IF b > a THEN b - a ELSE 0) |-> a + k - 1]

\* math.prod of a tuple
RECURSIVE prod(_)
prod(s) == IF s = <<>> THEN 1 ELSE Head(s) * prod(Tail(s))

\* shape[:n] for 0 <= n
Prefix(shape, n) == SubSeq(shape, 1, Min(n, Len(shape)))

\* shape[n:] for 0 <= n
Suffix(shape, n) == SubSeq(shape, n + 1, Len(shape))

\* sorted([a, b], key=len): stable, so a stays first on equal lengths
SortByLen(a, b) == IF Len(b) < Len(a) THEN <<b, a>> ELSE <<a, b>>

\* CeilDiv with the quotient rounded down (a // b)
CeilDiv_floor(a, b) == a \div b

\* math.ceil(a / b) for non-negative a and positive b; the quotient of the
\* model's small integers is exact in double precision.  b = 0 raises
\* ZeroDivisionError, which the caller of CeilDiv decides before using it.
CeilDiv(a, b) == (a + b - 1) \div b

(* ---------------- arrays ---------------- *)
\* no array: a name not bound yet, or an operation that raised ValueError
None == [ok |-> FALSE, shape |-> <<>>, data |-> <<>>]
Array(shape, data) == [ok |-> TRUE, shape |-> shape, data |-> data]

\* the value of an element no kernel thread has written (cp.zeros)
Zero == <<>>

\* row-major stride of axis k (1-based) in shape
Stride(shape, k) == prod(Suffix(shape, k))

\* multi-index (0-based entries) of the row-major offset n in shape
Unravel(shape, n) ==
    [k \in 1..Len(shape) |-> (n \div Stride(shape, k)) % shape[k]]

RECURSIVE SumTo(_, _, _)
SumTo(shape, idx, k) ==
    IF k = 0 THEN 0 ELSE idx[k] * Stride(shape, k) + SumTo(shape, idx, k - 1)

\* row-major offset of the multi-index idx in shape
Ravel(shape, idx) == SumTo(shape, idx, Len(shape))

\* cp.zeros(shape)
zeros(shape) == Array(shape, [n \in 1..prod(shape) |-> Zero])

\* ndarray.reshape(newshape) of a C-contiguous array: the same elements in
\* the same row-major order; ValueError when the sizes differ
reshape(a, newshape) ==
    IF prod(newshape) # Len(a.data) THEN None
    ELSE Array(newshape, a.data)

\* ndarray.transpose(*axes): axis k of the result is axis axes[k] of a;
\* ValueError when the number of axes is not the number of dimensions
transpose(a, axes) ==
    IF ~a.ok THEN a
    ELSE IF Len(axes) # Len(a.shape) THEN None
    ELSE LET newshape == [k \in 1..Len(axes) |-> a.shape[axes[k] + 1]]
             old(new) == [m \in 1..Len(a.shape) |->
                            new[CHOOSE k \in 1..Len(axes) : axes[k] + 1 = m]]
         IN Array(newshape,
                  [n \in 1..prod(newshape) |->
                     a.data[Ravel(a.shape, old(Unravel(newshape, n - 1))) + 1]])

(* ---------------- shape analysis (run.py 65-85) ---------------- *)
\* overhang that cuts one dimension too few (shape[: -len(sub_shape) + 1])
overhang_short(shape, sub) ==
    IF sub # <<>>
    THEN Prefix(shape, IF Len(shape) >= Len(sub) THEN Len(shape) - Len(sub) + 1 ELSE 0)
    ELSE shape

\* overhang(shape) with the sub_shape of the enclosing call
overhang(shape, sub) ==
    IF sub # <<>>
    THEN Prefix(shape, IF Len(shape) > Len(sub) THEN Len(shape) - Len(sub) ELSE 0)
    ELSE shape

(* ---------------- results buffer (run.py 89-100) ---------------- *)
results_shape(super, rows_in, rows_cam, reduction) ==
    super \o (IF reduction THEN <<rows_in>> ELSE <<rows_in, rows_cam>>)

(* ---------------- launch planning (run.py 105-121) ---------------- *)
threads_per_core(rows_in, over_in, rows_cam, over_cam) ==
    rows_in * over_in * rows_cam * over_cam

\* threads_per_block clamped to at least one thread
threads_per_block_clamped(tpc, max_tpb) ==
    IF Min(tpc, max_tpb) < 1 THEN 1 ELSE Min(tpc, max_tpb)

threads_per_block(tpc, max_tpb) == Min(tpc, max_tpb)

\* TRUE when ceil(threads_per_core / threads_per_block) raises
DivisionRaises(tpc, tpb) == tpb = 0

DimBlock(tpb) == <<tpb, 1, 1>>

DimGrid(tpc, tpb, sub) == <<CeilDiv(tpc, tpb), prod(sub), 1>>

NoDim == <<0, 0, 0>>

(* ---------------- kernel arguments (run.py 123-138) ---------------- *)
NoArgs == [uploaded |-> {}, input_rows |-> 0, cam_rows |-> 0, results |-> FALSE]

\* KernelArgs that leaves the cam operand on the host
KernelArgs_no_cam(rows_in, over_in, rows_cam, over_cam) ==
    [uploaded |-> {"inputs"},
     input_rows |-> rows_in * over_in,
     cam_rows |-> rows_cam * over_cam,
     results |-> TRUE]

\* the six positional arguments; the operands are raveled and moved to the
\* device, the rows are extended by the overhang
KernelArgs(rows_in, over_in, rows_cam, over_cam) ==
    [uploaded |-> {"inputs", "cam"},
     input_rows |-> rows_in * over_in,
     cam_rows |-> rows_cam * over_cam,
     results |-> TRUE]

\* no operand raveled yet
NoOperands == [inputs |-> <<>>, cam |-> <<>>]

\* ndarray.ravel() of an operand of shape outer + (rows, columns), row by
\* row: flat row n (0-based) of the raveled operand holds the columns of the
\* operand's row at the multi-index Unravel(outer + (rows,), n), so the
\* listing names each flat row by the operand row it is
ravel(outer, rows) ==
    [n \in 1..prod(outer \o <<rows>>) |-> Unravel(outer \o <<rows>>, n - 1)]

\* MissingReductionValues that never fails
MissingReductionValues_unchecked(reduction, values) == FALSE

\* run.py 136-138: a reduction whose reduction_values is None does not get
\* past the assert (or past None.ravel() when asserts are compiled out)
MissingReductionValues(reduction, values) == reduction /\ values = "None"

(* ---------------- the kernel (external) ---------------- *)
\* Number of values the kernel writes: one per (core, effective input row,
\* effective cam row), or one per (core, effective input row) for a reduction.
Footprint(cores, eff_in, eff_cam, reduction) ==
    cores * eff_in * (IF reduction THEN 1 ELSE eff_cam)

\* The value written at the even-stack offset p, named after the physical
\* position it belongs to: <<core, input row, cam row>>, or <<core, input row>>
\* for a reduction.
Written(p, eff_in, eff_cam, reduction) ==
    IF reduction THEN <<p \div eff_in, p % eff_in>>
    ELSE <<p \div (eff_in * eff_cam), (p \div eff_cam) % eff_in, p % eff_cam>>

\* Even-stack offset of a physical position.
EvenStackOffset(core, e_in, e_cam, eff_in, eff_cam) ==
    (core * eff_in + e_in) * eff_cam + e_cam

\* The flat row of a raveled operand the kernel reads for the effective row
\* e of the core: core * effective_rows + e.
OperandRow(core, e, eff_rows) == core * eff_rows + e

\* The operand rows behind the value at the even-stack position
\* <<core, e_in, e_cam>>: the row of inputs and the row of cam the kernel
\* read, each named by its multi-index in the operand.
RowsRead(pos, ops, eff_in, eff_cam) ==
    [inputs |-> ops.inputs[OperandRow(pos[1], pos[2], eff_in) + 1],
     cam |-> ops.cam[OperandRow(pos[1], pos[3], eff_cam) + 1]]

\* The results buffer after the kernel ran over grid.y = cores cores.
KernelWrite(res, cores, eff_in, eff_cam, reduction) ==
    Array(res.shape,
          [n \in 1..Len(res.data) |->
             IF n - 1 < Footprint(cores, eff_in, eff_cam, reduction)
             THEN Written(n - 1, eff_in, eff_cam, reduction)
             ELSE res.data[n]])

(* ---------------- result reshaping (run.py 166-202) ---------------- *)
Case2Shape(sub, super, rows_in, rows_cam) ==
    sub \o overhang(super, sub) \o <<rows_in, rows_cam>>

\* Case2Axes that leaves the overhang behind the sub shape
Case2Axes_in_place(sub_shape_dims, match_dims) == Range(0, match_dims)

Case2Axes(sub_shape_dims, match_dims) ==
    Range(sub_shape_dims, match_dims - 2) \o Range(0, sub_shape_dims)
        \o <<match_dims - 2, match_dims - 1>>

Case3Shape(sub, super, rows_in, rows_cam) ==
    sub \o <<rows_in>> \o overhang(super, sub) \o <<rows_cam>>

\* Case3Axes that ends with the cam rows in front of the input rows
Case3Axes_swapped(sub_shape_dims, match_dims) ==
    Range(sub_shape_dims + 1, match_dims - 1) \o Range(0, sub_shape_dims)
        \o <<match_dims - 1, sub_shape_dims>>

Case3Axes(sub_shape_dims, match_dims) ==
    Range(sub_shape_dims + 1, match_dims - 1) \o Range(0, sub_shape_dims)
        \o <<sub_shape_dims, match_dims - 1>>

\* IsCase1 that returns early only for unstacked operands
IsCase1_unstacked(in_outer, cam_outer) == in_outer = <<>> /\ cam_outer = <<>>

\* TRUE when the early return of case 1 is taken
IsCase1(in_outer, cam_outer) == Len(in_outer) = Len(cam_outer)

\* The value run_kernel returns after the kernel call, None when reshape or
\* transpose raises ValueError.
ResultReshaper(res, in_outer, cam_outer, sub, super, rows_in, rows_cam) ==
    IF IsCase1(in_outer, cam_outer) THEN res
    ELSE LET match_dims == Len(res.shape)
             sub_shape_dims == Len(sub)
         IN IF Len(in_outer) > Len(cam_outer)
            THEN transpose(reshape(res, Case2Shape(sub, super, rows_in, rows_cam)),
                           Case2Axes(sub_shape_dims, match_dims))
            ELSE transpose(reshape(res, Case3Shape(sub, super, rows_in, rows_cam)),
                           Case3Axes(sub_shape_dims, match_dims))

(* ---------------- the call ---------------- *)
Dims == 0..MaxDim
Shapes == UNION {[1..n -> Dims] : n \in 0..MaxOuterLen}

\* check_cam_params has accepted the operands: the shorter outer shape is a
\* trailing part of the longer one
Compatible(a, b) ==
    IF Len(a) <= Len(b) THEN a = Suffix(b, Len(b) - Len(a))
    ELSE b = Suffix(a, Len(a) - Len(b))

Init ==
    /\ inputs_outer_shape \in Shapes
    /\ cam_outer_shape \in Shapes
    /\ Compatible(inputs_outer_shape, cam_outer_shape)
    /\ input_rows \in 0..MaxRows
    /\ cam_rows \in 0..MaxRows
    /\ is_reduction \in BOOLEAN
    /\ reduction_values \in {"None", "vector"}
    /\ max_threads_per_block \in 1..MaxThreads
    /\ pc = "analyze"
    /\ failure = "none"
    /\ sub_shape = <<>>
    /\ super_shape = <<>>
    /\ inputs_overhang = 1
    /\ cam_overhang = 1
    /\ results = None
    /\ dim_block = NoDim
    /\ dim_grid = NoDim
    /\ kernel_args = NoArgs
    /\ operands = NoOperands
    /\ launches = 0
    /\ returned = None

\* run.py 65-85
ShapeAnalyzer ==
    /\ pc = "analyze"
    /\ UNCHANGED operands
    /\ LET sorted == SortByLen(inputs_outer_shape, cam_outer_shape)
       IN /\ sub_shape' = sorted[1]
          /\ super_shape' = sorted[2]
          /\ inputs_overhang' = prod(overhang(inputs_outer_shape, sorted[1]))
          /\ cam_overhang' = prod(overhang(cam_outer_shape, sorted[1]))
    /\ pc' = "allocate"
    /\ UNCHANGED <<args, failure, results, dim_block, dim_grid, kernel_args,
                   launches, returned>>

\* run.py 87-100
ResultAllocator ==
    /\ pc = "allocate"
    /\ UNCHANGED operands
    /\ results' = zeros(results_shape(super_shape, input_rows, cam_rows, is_reduction))
    /\ pc' = "plan"
    /\ UNCHANGED <<args, failure, sub_shape, super_shape, inputs_overhang,
                   cam_overhang, dim_block, dim_grid, kernel_args, launches,
                   returned>>

\* run.py 105-121
LaunchPlanner ==
    /\ pc = "plan"
    /\ UNCHANGED operands
    /\ LET tpc == threads_per_core(input_rows, inputs_overhang, cam_rows, cam_overhang)
           tpb == threads_per_block(tpc, max_threads_per_block)
       IN IF DivisionRaises(tpc, tpb)
          THEN /\ failure' = "ZeroDivisionError"
               /\ pc' = "failed"
               /\ dim_block' = DimBlock(tpb)
               /\ UNCHANGED dim_grid
          ELSE /\ dim_block' = DimBlock(tpb)
               /\ dim_grid' = DimGrid(tpc, tpb, sub_shape)
               /\ pc' = "marshal"
               /\ UNCHANGED failure
    /\ UNCHANGED <<args, sub_shape, super_shape, inputs_overhang, cam_overhang,
                   results, kernel_args, launches, returned>>

\* run.py 123-134
MarshalArgs ==
    /\ pc = "marshal"
    /\ kernel_args' = KernelArgs(input_rows, inputs_overhang, cam_rows, cam_overhang)
    /\ operands' = [inputs |-> ravel(inputs_outer_shape, input_rows),
                    cam |-> ravel(cam_outer_shape, cam_rows)]
    /\ pc' = "reduction_args"
    /\ UNCHANGED <<args, failure, sub_shape, super_shape, inputs_overhang,
                   cam_overhang, results, dim_block, dim_grid, launches, returned>>

\* run.py 136-138.  With assertions compiled out (python -O) the assert is
\* skipped and None.ravel() raises AttributeError instead.
ReductionArgs ==
    /\ pc = "reduction_args"
    /\ UNCHANGED operands
    /\ IF MissingReductionValues(is_reduction, reduction_values)
       THEN /\ \E asserts \in BOOLEAN :
                  failure' = IF asserts THEN "AssertionError" ELSE "AttributeError"
            /\ pc' = "failed"
            /\ UNCHANGED kernel_args
       ELSE /\ kernel_args' =
                  IF is_reduction
                  THEN [kernel_args EXCEPT !.uploaded = @ \cup {"reduction_values"}]
                  ELSE kernel_args
            /\ pc' = "launch"
            /\ UNCHANGED failure
    /\ UNCHANGED <<args, sub_shape, super_shape, inputs_overhang, cam_overhang,
                   results, dim_block, dim_grid, launches, returned>>

\* run.py 141
KernelCall ==
    /\ pc = "launch"
    /\ UNCHANGED operands
    /\ launches' = launches + 1
    /\ results' = KernelWrite(results, dim_grid[2], kernel_args.input_rows,
                              kernel_args.cam_rows, is_reduction)
    /\ pc' = "reshape"
    /\ UNCHANGED <<args, failure, sub_shape, super_shape, inputs_overhang,
                   cam_overhang, dim_block, dim_grid, kernel_args, returned>>

\* run.py 166-202
Reshape ==
    /\ pc = "reshape"
    /\ UNCHANGED operands
    /\ LET r == ResultReshaper(results, inputs_outer_shape, cam_outer_shape,
                               sub_shape, super_shape, input_rows, cam_rows)
       IN IF r.ok
          THEN /\ returned' = r
               /\ pc' = "done"
               /\ UNCHANGED failure
          ELSE /\ failure' = "ValueError"
               /\ pc' = "failed"
               /\ UNCHANGED returned
    /\ UNCHANGED <<args, sub_shape, super_shape, inputs_overhang, cam_overhang,
                   results, dim_block, dim_grid, kernel_args, launches>>

Next ==
    \/ ShapeAnalyzer
    \/ ResultAllocator
    \/ LaunchPlanner
    \/ MarshalArgs
    \/ ReductionArgs
    \/ KernelCall
    \/ Reshape

Spec == Init /\ [][Next]_vars

(* ======================= properties ======================= *)
\* the call has ended, by a return or by an exception
Ended == pc \in {"done", "failed"}

\* the longer and the shorter outer shape, and the overhang between them
Longer == IF Len(inputs_outer_shape) >= Len(cam_outer_shape)
          THEN inputs_outer_shape ELSE cam_outer_shape
Shorter == IF Len(inputs_outer_shape) >= Len(cam_outer_shape)
           THEN cam_outer_shape ELSE inputs_outer_shape
Over == Prefix(Longer, Len(Longer) - Len(Shorter))
InputsLonger == Len(inputs_outer_shape) > Len(cam_outer_shape)
CamLonger == Len(cam_outer_shape) > Len(inputs_outer_shape)

\* the overhang factors of the two operands
InputsFactor == IF InputsLonger THEN prod(Over) ELSE 1
CamFactor == IF CamLonger THEN prod(Over) ELSE 1
TPC == input_rows * InputsFactor * cam_rows * CamFactor

\* the planner has run
Planned == pc \notin {"analyze", "allocate", "plan"}

\* the reduction values were required and missing when the call failed
FailedOnMissingValues == failure \in {"AssertionError", "AttributeError"}

\* C1 as stated: for a non-reduction and any compatible pair of outer
\* shapes, the call returns an array of shape
\* super_shape + (input_rows, cam_rows).
C1_AlwaysReturnsShape ==
    (~is_reduction /\ Ended) =>
        /\ pc = "done"
        /\ returned.ok
        /\ returned.shape = Longer \o <<input_rows, cam_rows>>

\* C1 amended: for a non-reduction with threads_per_core >= 1 the call
\* returns an array of shape super_shape + (input_rows, cam_rows), whichever
\* operand is the longer; with threads_per_core = 0 it returns nothing and
\* ends in the planner's ZeroDivisionError.
C1_NonReductionShape ==
    (~is_reduction /\ Ended) =>
        /\ (TPC >= 1) =>
              /\ pc = "done"
              /\ failure = "none"
              /\ returned.ok
              /\ returned.shape = Longer \o <<input_rows, cam_rows>>
        /\ (TPC = 0) =>
              /\ pc = "failed"
              /\ failure = "ZeroDivisionError"
              /\ returned = None

\* C1 witness: scenario B with a stack of 2 cams: inputs_outer = (),
\* cam_outer = (2,), input_rows = 2, cam_rows = 3 returns shape (2,2,3)
C1_Witness ==
    /\ pc = "done" /\ ~is_reduction
    /\ inputs_outer_shape = <<>> /\ cam_outer_shape = <<2>>
    /\ input_rows = 2 /\ cam_rows = 3
    /\ returned.shape = <<2, 2, 3>>

\* C2: for a reduction with reduction values supplied, once the kernel has
\* run the call returns an array of shape super_shape + (input_rows,), also
\* when the outer shapes differ in length.
C2_ReductionShape ==
    (is_reduction /\ reduction_values = "vector" /\ launches > 0 /\ Ended) =>
        /\ pc = "done"
        /\ returned.ok
        /\ returned.shape = Longer \o <<input_rows>>

\* the physical position the value of the logical offset n comes from,
\* as <<core, effective input row, effective cam row>>
PhysicalOf(n) ==
    LET idx == Unravel(Longer \o <<input_rows, cam_rows>>, n)
        o == Ravel(Over, SubSeq(idx, 1, Len(Over)))
        c == Ravel(Shorter, SubSeq(idx, Len(Over) + 1, Len(Longer)))
        i == idx[Len(Longer) + 1]
        j == idx[Len(Longer) + 2]
    IN IF InputsLonger THEN <<c, o * input_rows + i, j>>
       ELSE <<c, i, o * cam_rows + j>>

OffsetOf(n) ==
    EvenStackOffset(PhysicalOf(n)[1], PhysicalOf(n)[2], PhysicalOf(n)[3],
                    input_rows * InputsFactor, cam_rows * CamFactor)

\* C3: for a non-reduction with outer shapes of different lengths, the value
\* returned at the logical index (o, s, i, j) is the value the kernel wrote at
\* the physical position (core s, input row flat(o)*input_rows + i, cam row j)
\* when the inputs are the longer, (core s, input row i, cam row
\* flat(o)*cam_rows + j) when the cam is; every element of the buffer is
\* returned at exactly one logical index.
C3_RoundTrip ==
    (pc = "done" /\ ~is_reduction /\ (InputsLonger \/ CamLonger)) =>
        /\ returned.shape = Longer \o <<input_rows, cam_rows>>
        /\ Len(returned.data) = Len(results.data)
        /\ \A n \in 0..(Len(returned.data) - 1) :
              /\ OffsetOf(n) \in 0..(Len(results.data) - 1)
              /\ returned.data[n + 1] = results.data[OffsetOf(n) + 1]
              /\ returned.data[n + 1] = PhysicalOf(n)
        /\ \A p \in 0..(Len(results.data) - 1) :
              Cardinality({n \in 0..(Len(returned.data) - 1) : OffsetOf(n) = p}) = 1

\* C3 witness: a returned non-reduction whose overhang and sub shape both
\* hold more than one element, with different row counts
C3_Witness ==
    /\ pc = "done" /\ ~is_reduction
    /\ InputsLonger \/ CamLonger
    /\ prod(Over) > 1 /\ prod(Shorter) > 1
    /\ input_rows > 1 /\ cam_rows > 1 /\ input_rows # cam_rows

\* C4: a reduction called without reduction values ends in a failure, never
\* in a return, and the kernel is never called.
C4_MissingValuesFail ==
    (is_reduction /\ reduction_values = "None") =>
        /\ launches = 0
        /\ returned = None
        /\ pc \notin {"launch", "reshape", "done"}

\* C4 witness: the call has failed on the missing reduction values
C4_Witness ==
    /\ pc = "failed" /\ FailedOnMissingValues
    /\ is_reduction /\ reduction_values = "None"
    /\ launches = 0

\* C5 as stated: when the call fails on the missing reduction values, the
\* results buffer is not allocated, no operand is uploaded and no kernel
\* launch was issued.
C5_NoDeviceWork ==
    FailedOnMissingValues =>
        /\ ~results.ok
        /\ kernel_args.uploaded = {}
        /\ launches = 0

\* C5 amended: when the call fails on the missing reduction values, no
\* kernel launch was issued, but the results buffer is already allocated and
\* both operands are already flattened and uploaded.
C5_OnlyLaunchPending ==
    FailedOnMissingValues =>
        /\ launches = 0
        /\ results.ok
        /\ results.shape = Longer \o <<input_rows>>
        /\ kernel_args.uploaded = {"inputs", "cam"}

\* C5 witness: a failure on the missing values with the buffer allocated
C5_Witness ==
    /\ FailedOnMissingValues /\ pc = "failed"
    /\ results.ok /\ Len(results.data) > 1
    /\ "cam" \in kernel_args.uploaded

\* C6: with threads_per_core >= 1 the planned geometry covers every thread
\* of a core with blocks no larger than the device allows:
\* dim_block.x * dim_grid.x >= threads_per_core, 1 <= dim_block.x <=
\* max_threads_per_block, dim_block = (min(threads_per_core, max), 1, 1) and
\* dim_grid = (.., product(sub_shape), 1).
C6_GeometryBound ==
    (Planned /\ TPC >= 1) =>
        /\ dim_block[1] * dim_grid[1] >= TPC
        /\ dim_block[1] >= 1
        /\ dim_block[1] <= max_threads_per_block
        /\ dim_block = <<Min(TPC, max_threads_per_block), 1, 1>>
        /\ (dim_grid[1] - 1) * dim_block[1] < TPC
        /\ dim_grid[2] = prod(Shorter)
        /\ dim_grid[3] = 1

\* C6 witness: a planned call whose threads need more than one block, the
\* last one partly filled
C6_Witness ==
    /\ Planned /\ failure = "none"
    /\ TPC > max_threads_per_block
    /\ TPC % max_threads_per_block # 0
    /\ dim_grid[1] > 1

\* C7: at most one of the two overhang factors is greater than 1.
C7_OverhangExclusive ==
    (pc # "analyze") => ~(inputs_overhang > 1 /\ cam_overhang > 1)

\* C7 witness: stacked operands of equal outer shape have been analysed
C7_Witness ==
    /\ pc # "analyze"
    /\ inputs_outer_shape = cam_outer_shape
    /\ prod(inputs_outer_shape) > 1
    /\ inputs_overhang = 1 /\ cam_overhang = 1

\* C8: the element count of the allocated results buffer equals the number
\* of values the kernel writes in the even-stack layout, for both operation
\* kinds and all three shape cases.
C8_BufferIsFootprint ==
    (results.ok /\ kernel_args.results) =>
        Len(results.data) = Footprint(prod(sub_shape), kernel_args.input_rows,
                                      kernel_args.cam_rows, is_reduction)

\* C9 as stated: the planner never raises; it yields a geometry for every
\* combination of its inputs, threads_per_core = 0 included.
C9_PlannerNeverFails ==
    Planned => (failure # "ZeroDivisionError" /\ dim_grid # NoDim)

\* C9 amended: the planner yields a geometry exactly when threads_per_core
\* >= 1; with threads_per_core = 0 it raises ZeroDivisionError itself while
\* computing dim_grid, before the operands are marshalled, and the kernel is
\* never launched.
C9_PlannerFailsOnZero ==
    Planned =>
        /\ (TPC = 0) <=> (failure = "ZeroDivisionError")
        /\ (TPC = 0) =>
              /\ pc = "failed" /\ dim_grid = NoDim
              /\ kernel_args = NoArgs /\ launches = 0 /\ returned = None
        /\ (TPC >= 1) => dim_grid # NoDim

\* C9 witness: a call with a zero dimension in the overhang has failed in
\* the planner
C9_Witness ==
    /\ pc = "failed" /\ failure = "ZeroDivisionError"
    /\ input_rows > 0 /\ cam_rows > 0
    /\ prod(Over) = 0

\* C10: when the outer shapes are equal, once the kernel has run the call
\* returns the results buffer itself: the shape it was allocated in and
\* every element where the kernel wrote it, reduction or not.
C10_Case1Identity ==
    (inputs_outer_shape = cam_outer_shape /\ launches > 0 /\ Ended) =>
        /\ pc = "done"
        /\ returned = results
        /\ returned.shape =
              inputs_outer_shape \o
                  (IF is_reduction THEN <<input_rows>> ELSE <<input_rows, cam_rows>>)
        /\ \A n \in 1..Len(returned.data) :
              returned.data[n] =
                  Written(n - 1, input_rows, cam_rows, is_reduction)

\* C10 witness: a reduction over stacked operands of equal outer shape has
\* returned
C10_Witness ==
    /\ pc = "done" /\ is_reduction
    /\ inputs_outer_shape = cam_outer_shape
    /\ prod(inputs_outer_shape) > 1
    /\ input_rows > 1 /\ cam_rows > 1
    /\ returned = results

\* the operand rows broadcasting prescribes for the logical offset n:
\* inputs[o, s, i] and cam[s, j] when the inputs are the longer,
\* inputs[s, i] and cam[o, s, j] when the cam is
RowsPrescribed(n) ==
    LET idx == Unravel(Longer \o <<input_rows, cam_rows>>, n)
        o == SubSeq(idx, 1, Len(Over))
        s == SubSeq(idx, Len(Over) + 1, Len(Longer))
        i == idx[Len(Longer) + 1]
        j == idx[Len(Longer) + 2]
    IN IF InputsLonger
       THEN [inputs |-> o \o s \o <<i>>, cam |-> s \o <<j>>]
       ELSE [inputs |-> s \o <<i>>, cam |-> o \o s \o <<j>>]

\* C11: for a non-reduction with outer shapes of different lengths, the value
\* returned at the logical index (o, s, i, j) was computed by the kernel from
\* the operand rows broadcasting prescribes (inputs[o, s, i] and cam[s, j], or
\* inputs[s, i] and cam[o, s, j]), for every overhang and sub shape.
C11_OperandRows ==
    (pc = "done" /\ ~is_reduction /\ (InputsLonger \/ CamLonger)) =>
        \A n \in 0..(Len(returned.data) - 1) :
            RowsRead(returned.data[n + 1], operands,
                     kernel_args.input_rows, kernel_args.cam_rows)
                = RowsPrescribed(n)

\* C11 restricted to calls whose overhang or sub shape holds one element
C11_OperandRowsOneSided ==
    (prod(Over) = 1 \/ prod(Shorter) = 1) => C11_OperandRows

====
